---------------------------- MODULE Spec2Model ----------------------------
(***************************************************************************)
(* Analytics pipeline of the personal-finance copilot                      *)
(* (src/app/services/*.py, called from src/app/main.py).                   *)
(*                                                                         *)
(* Numbers.  Money is counted in units of 0.001 (one "mill"), so that the  *)
(* two-decimal rounding of the result records (round(x, 2)) is a real      *)
(* conversion: it maps an amount to the nearest multiple of 10 mills.      *)
(* Ratios (savings_rate, delta_pct) are reported in units of 0.001, the    *)
(* precision of round(x, 3).  Arithmetic is exact; the one place where     *)
(* binary floating point can change a result is the direction in which a   *)
(* value that lies exactly half-way between two decimals is rounded, and   *)
(* that direction is the variable half_up, fixed for a whole run.          *)
(*                                                                         *)
(* Text.  A string is a sequence of one-character strings, so that         *)
(* lower(), strip() and the substring test are computed, not assumed.      *)
(* None is a value that is no string.                                      *)
(***************************************************************************)
EXTENDS Integers, Sequences, FiniteSets, TLC

VARIABLES
    raw,            \* the caller's transaction table (main.py: df = pd.DataFrame(data))
    df,             \* the working table returned by apply_auto_categories_to_df
    current_period, \* the period selected by the caller (dashboard)
    half_up,        \* direction of an exact decimal tie in round()
    stats,          \* result of compute_basic_stats
    categories,     \* result of compute_category_breakdown
    patterns,       \* result of detect_patterns
    actions,        \* result of recommend_actions_for_next_month
    profiles,       \* result of build_behaviour_profiles
    clustering,     \* locals of build_behaviour_profiles: monthly_df, the
                    \* cluster of every month (fit_predict), cluster_labels
    trends,         \* result of compute_category_trends
    story,          \* outcome of the text service and result of build_money_story
    pc              \* the next call of the handler

vars == <<raw, df, current_period, half_up, stats, categories, patterns,
          actions, profiles, clustering, trends, story, pc>>

\* A result that has not been computed yet.
NotComputed == [computed |-> FALSE]

----------------------------------------------------------------------------
(* Python values                                                           *)

\* None: distinct from every string (its element is not a character).
None == <<"<None>">>

\* The empty dict {} / a key that is absent.
EmptyDict == [k \in {} |-> 0]

\* dict.get(key, default)
Get(d, key, default) == IF key \in DOMAIN d THEN d[key] ELSE default

\* Nearest integer to n / d for n >= 0, d > 0; an exact tie goes the way
\* half_up says.
RoundNat(n, d) ==
    LET q == n \div d
        r == n % d
    IN  IF 2 * r < d THEN q
        ELSE IF 2 * r > d THEN q + 1
        ELSE IF half_up THEN q + 1 ELSE q

\* round(n / d) for any sign of n (d > 0): rounding acts on the magnitude.
RoundDiv(n, d) == IF n >= 0 THEN RoundNat(n, d) ELSE -RoundNat(-n, d)

\* round(x, 2) of a money value x = n / d mills: the result in mills.
Round2(n, d) == 10 * RoundDiv(n, 10 * d)

\* round(x, 3) of a ratio x = n / d: the result in units of 0.001. The whole
\* part of n / d is split off first, which keeps the products small.
Round3Nat(n, d) == 1000 * (n \div d) + RoundNat(1000 * (n % d), d)

Round3(n, d) == IF n >= 0 THEN Round3Nat(n, d) ELSE -Round3Nat(-n, d)

\* f"{x:,.0f}" of a money value of n mills: the whole number printed.
Fmt0(n) == RoundDiv(n, 1000)

\* sum of a sequence of integers
RECURSIVE SumSeq(_)
SumSeq(s) == IF s = <<>> THEN 0 ELSE s[1] + SumSeq(Tail(s))

Range(s) == {s[i] : i \in DOMAIN s}

----------------------------------------------------------------------------
(* Text                                                                    *)

UpperChars == <<"A","B","C","D","E","F","G","H","I","J","K","L","M",
                "N","O","P","Q","R","S","T","U","V","W","X","Y","Z">>
LowerChars == <<"a","b","c","d","e","f","g","h","i","j","k","l","m",
                "n","o","p","q","r","s","t","u","v","w","x","y","z">>

\* str.lower() on one character
LowerChar(c) ==
    IF \E i \in DOMAIN UpperChars : UpperChars[i] = c
    THEN LowerChars[CHOOSE i \in DOMAIN UpperChars : UpperChars[i] = c]
    ELSE c

\* str.lower()
Lower(s) == [i \in DOMAIN s |-> LowerChar(s[i])]

\* str(x): None prints as "None"
Str(x) == IF x = None THEN <<"N","o","n","e">> ELSE x

\* s.strip() == "": every character is white space
IsBlank(s) == \A i \in DOMAIN s : s[i] = " "

\* needle in text (substring test)
Contains(text, needle) ==
    \E i \in 0..(Len(text) - Len(needle)) :
        \A j \in 1..Len(needle) : text[i + j] = needle[j]

\* " ".join(parts)
RECURSIVE JoinSpace(_)
JoinSpace(parts) ==
    IF parts = <<>> THEN <<>>
    ELSE IF Len(parts) = 1 THEN parts[1]
    ELSE parts[1] \o <<" ">> \o JoinSpace(Tail(parts))

----------------------------------------------------------------------------
(* src/app/services/categorizer.py                                         *)

Cat_Food == <<"F","o","o","d">>
Cat_Transport == <<"T","r","a","n","s","p","o","r","t">>
Cat_Subscriptions == <<"S","u","b","s","c","r","i","p","t","i","o","n","s">>
Cat_Shopping == <<"S","h","o","p","p","i","n","g">>
Cat_Housing == <<"H","o","u","s","i","n","g">>
Cat_Salary == <<"S","a","l","a","r","y">>
Cat_SideIncome == <<"S","i","d","e"," ","I","n","c","o","m","e">>
Cat_Bonus == <<"B","o","n","u","s">>
Cat_FeesCharges == <<"F","e","e","s"," ","&"," ","C","h","a","r","g","e","s">>

\* KEYWORD_CATEGORY_MAP, in declaration order (a dict keeps insertion order)
KEYWORD_CATEGORY_MAP == <<
    <<<<"z","o","m","a","t","o">>, Cat_Food>>,
    <<<<"s","w","i","g","g","y">>, Cat_Food>>,
    <<<<"b","l","i","n","k","i","t">>, Cat_Food>>,
    <<<<"i","n","s","t","a","m","a","r","t">>, Cat_Food>>,
    <<<<"b","i","g","b","a","s","k","e","t">>, Cat_Food>>,
    <<<<"s","t","a","r","b","u","c","k","s">>, Cat_Food>>,
    <<<<"c","a","f","e">>, Cat_Food>>,
    <<<<"r","e","s","t","a","u","r","a","n","t">>, Cat_Food>>,
    <<<<"u","b","e","r">>, Cat_Transport>>,
    <<<<"o","l","a">>, Cat_Transport>>,
    <<<<"r","a","p","i","d","o">>, Cat_Transport>>,
    <<<<"m","e","t","r","o">>, Cat_Transport>>,
    <<<<"c","a","b">>, Cat_Transport>>,
    <<<<"f","u","e","l">>, Cat_Transport>>,
    <<<<"p","e","t","r","o","l">>, Cat_Transport>>,
    <<<<"d","i","e","s","e","l">>, Cat_Transport>>,
    <<<<"n","e","t","f","l","i","x">>, Cat_Subscriptions>>,
    <<<<"s","p","o","t","i","f","y">>, Cat_Subscriptions>>,
    <<<<"h","o","t","s","t","a","r">>, Cat_Subscriptions>>,
    <<<<"d","i","s","n","e","y">>, Cat_Subscriptions>>,
    <<<<"p","r","i","m","e">>, Cat_Subscriptions>>,
    <<<<"y","o","u","t","u","b","e">>, Cat_Subscriptions>>,
    <<<<"a","p","p","l","e"," ","m","u","s","i","c">>, Cat_Subscriptions>>,
    <<<<"a","m","a","z","o","n">>, Cat_Shopping>>,
    <<<<"f","l","i","p","k","a","r","t">>, Cat_Shopping>>,
    <<<<"m","y","n","t","r","a">>, Cat_Shopping>>,
    <<<<"a","j","i","o">>, Cat_Shopping>>,
    <<<<"h","&","m">>, Cat_Shopping>>,
    <<<<"z","a","r","a">>, Cat_Shopping>>,
    <<<<"n","y","k","a","a">>, Cat_Shopping>>,
    <<<<"r","e","n","t">>, Cat_Housing>>,
    <<<<"l","a","n","d","l","o","r","d">>, Cat_Housing>>,
    <<<<"m","a","i","n","t","e","n","a","n","c","e">>, Cat_Housing>>,
    <<<<"s","o","c","i","e","t","y">>, Cat_Housing>>,
    <<<<"s","a","l","a","r","y">>, Cat_Salary>>,
    <<<<"s","a","l","a","r","i","e","d">>, Cat_Salary>>,
    <<<<"s","t","i","p","e","n","d">>, Cat_Salary>>,
    <<<<"f","r","e","e","l","a","n","c","e">>, Cat_SideIncome>>,
    <<<<"c","o","n","s","u","l","t","i","n","g">>, Cat_SideIncome>>,
    <<<<"b","o","n","u","s">>, Cat_Bonus>>,
    <<<<"f","e","e">>, Cat_FeesCharges>>,
    <<<<"c","h","a","r","g","e","s">>, Cat_FeesCharges>>,
    <<<<"p","e","n","a","l","t","y">>, Cat_FeesCharges>>,
    <<<<"f","i","n","e">>, Cat_FeesCharges>>,
    <<<<"i","n","t","e","r","e","s","t">>, Cat_FeesCharges>>
>>

\* A slip: the keyword found last in the table decides.
GuessLastKeyword(description, source, account_name) ==
    LET parts == SelectSeq(<<description, source, account_name>>,
                           LAMBDA part : part # None)
        text  == JoinSpace([i \in DOMAIN parts |-> Lower(parts[i])])
        hits  == {i \in DOMAIN KEYWORD_CATEGORY_MAP :
                     Contains(text, KEYWORD_CATEGORY_MAP[i][1])}
    IN  IF hits = {} THEN None
        ELSE KEYWORD_CATEGORY_MAP[CHOOSE i \in hits : \A j \in hits : i >= j][2]

\* guess_category (lines 70-90)
guess_category(description, source, account_name) ==
    LET parts == SelectSeq(<<description, source, account_name>>,
                           LAMBDA part : part # None)
        text  == JoinSpace([i \in DOMAIN parts |-> Lower(parts[i])])
        hits  == {i \in DOMAIN KEYWORD_CATEGORY_MAP :
                     Contains(text, KEYWORD_CATEGORY_MAP[i][1])}
    IN  IF hits = {} THEN None
        ELSE KEYWORD_CATEGORY_MAP[CHOOSE i \in hits : \A j \in hits : i <= j][2]

\* A table (DataFrame): its column names and its rows, each row a function
\* from the column names to values.
Table(columns, rows) == [columns |-> columns, rows |-> rows]

\* df["category"] = None when the column is missing (lines 98-99); this
\* assignment is made on the caller's table, before the copy of line 101.
WithCategoryColumn(t) ==
    IF "category" \in t.columns THEN t
    ELSE Table(t.columns \cup {"category"},
               [i \in DOMAIN t.rows |->
                   [c \in t.columns \cup {"category"} |->
                       IF c = "category" THEN None ELSE t.rows[i][c]]])

\* A slip: every row is taken to be missing its category.
MaskEveryRow(row) == TRUE

\* mask_missing (line 103): isna() or str(category).strip() == ""
MaskMissing(row) == row["category"] = None \/ IsBlank(Str(row["category"]))

\* _categorise_row (lines 105-111)
CategoriseRow(row) ==
    LET cat == guess_category(Str(Get(row, "description", <<>>)),
                              Get(row, "source", None),
                              Get(row, "account_name", None))
    IN  IF cat # None THEN cat ELSE Get(row, "category", None)

\* apply_auto_categories_to_df (lines 93-117): the table returned
apply_auto_categories_to_df(t) ==
    LET d == WithCategoryColumn(t)
    IN  Table(d.columns,
              [i \in DOMAIN d.rows |->
                  IF MaskMissing(d.rows[i])
                  THEN [d.rows[i] EXCEPT !["category"] = CategoriseRow(d.rows[i])]
                  ELSE d.rows[i]])

----------------------------------------------------------------------------
(* src/app/services/analyzer.py                                            *)

\* df.loc[mask, "amount"].sum()
AmountSum(rows) == SumSeq([i \in DOMAIN rows |-> rows[i]["amount"]])

IncomeRows(t)  == SelectSeq(t.rows, LAMBDA r : r["is_income"])
ExpenseRows(t) == SelectSeq(t.rows, LAMBDA r : ~r["is_income"])

\* A slip: the operands of the subtraction exchanged.
BasicNetSwapped(income, expense) == expense - income

\* net = income - expense (line 16)
BasicNet(income, expense) == income - expense

\* savings_rate = (net / income) if income > 0 else 0.0, then round(.., 3)
\* (lines 17 and 23)
BasicSavingsRate(net, income) == IF income > 0 THEN Round3(net, income) ELSE 0

\* compute_basic_stats (lines 9-24)
compute_basic_stats(t) ==
    LET income  == AmountSum(IncomeRows(t))
        expense == AmountSum(ExpenseRows(t))
        net     == BasicNet(income, expense)
    IN  [total_income  |-> Round2(income, 1),
         total_expense |-> Round2(expense, 1),
         net           |-> Round2(net, 1),
         savings_rate  |-> BasicSavingsRate(net, income)]

\* Code points order the characters that occur in the model's strings.
CodePointOrder == <<" ", "&">> \o UpperChars \o LowerChars

CharRank(c) ==
    IF \E i \in DOMAIN CodePointOrder : CodePointOrder[i] = c
    THEN CHOOSE i \in DOMAIN CodePointOrder : CodePointOrder[i] = c
    ELSE 0

\* a < b for strings (lexicographic by code point)
RECURSIVE StrLess(_, _)
StrLess(a, b) ==
    IF b = <<>> THEN FALSE
    ELSE IF a = <<>> THEN TRUE
    ELSE IF CharRank(a[1]) # CharRank(b[1]) THEN CharRank(a[1]) < CharRank(b[1])
    ELSE StrLess(Tail(a), Tail(b))

\* The group keys of groupby("category"): the distinct categories, None
\* (NaN) keys dropped (dropna=True), in sorted order (sort=True).
RECURSIVE SortedStrings(_)
SortedStrings(S) ==
    IF S = {} THEN <<>>
    ELSE LET m == CHOOSE x \in S : \A y \in S \ {x} : StrLess(x, y)
         IN  <<m>> \o SortedStrings(S \ {m})

GroupKeys(rows) == {rows[i]["category"] : i \in DOMAIN rows} \ {None}

\* exp_df.groupby("category")["amount"].sum() (line 39)
GroupSums(rows) ==
    LET keys == SortedStrings(GroupKeys(rows))
    IN  [k \in DOMAIN keys |->
            [category |-> keys[k],
             amount   |-> AmountSum(SelectSeq(rows,
                              LAMBDA r : r["category"] = keys[k]))]]

\* sort_values(ascending=False): descending by amount; entries with equal
\* amounts keep the order of the group keys.
RECURSIVE InsertDesc(_, _)
InsertDesc(sorted, e) ==
    IF sorted = <<>> THEN <<e>>
    ELSE IF sorted[1].amount >= e.amount
         THEN <<sorted[1]>> \o InsertDesc(Tail(sorted), e)
         ELSE <<e>> \o sorted

RECURSIVE SortValuesDesc(_)
SortValuesDesc(s) ==
    IF s = <<>> THEN <<>>
    ELSE InsertDesc(SortValuesDesc(SubSeq(s, 1, Len(s) - 1)), s[Len(s)])

\* compute_category_breakdown (lines 27-45)
compute_category_breakdown(t) ==
    IF "category" \notin t.columns THEN <<>>
    ELSE LET exp_rows == ExpenseRows(t)
         IN  IF exp_rows = <<>> THEN <<>>
             ELSE LET grouped == SortValuesDesc(GroupSums(exp_rows))
                  IN  [i \in DOMAIN grouped |->
                          [category    |-> Str(grouped[i].category),
                           total_spend |-> Round2(grouped[i].amount, 1)]]

\* timestamp.dt.date (line 74): the calendar date, without the time of day
DateOf(ts) == <<ts.month, ts.day>>

DateLess(a, b) == a[1] < b[1] \/ (a[1] = b[1] /\ a[2] < b[2])

\* groupby("date") keys: the dates that have an expense, in chronological order
RECURSIVE SortedDates(_)
SortedDates(S) ==
    IF S = {} THEN <<>>
    ELSE LET m == CHOOSE x \in S : \A y \in S \ {x} : DateLess(x, y)
         IN  <<m>> \o SortedDates(S \ {m})

\* daily = expense_df.groupby("date")["amount"].sum() (line 79)
DailyTotals(exp_rows) ==
    LET dates == SortedDates({DateOf(exp_rows[i]["timestamp"]) : i \in DOMAIN exp_rows})
    IN  [k \in DOMAIN dates |->
            [date   |-> dates[k],
             amount |-> AmountSum(SelectSeq(exp_rows,
                            LAMBDA r : DateOf(r["timestamp"]) = dates[k]))]]

\* ascending sort of a sequence of integers
RECURSIVE InsertAsc(_, _)
InsertAsc(sorted, x) ==
    IF sorted = <<>> THEN <<x>>
    ELSE IF sorted[1] <= x THEN <<sorted[1]>> \o InsertAsc(Tail(sorted), x)
    ELSE <<x>> \o sorted

RECURSIVE SortAsc(_)
SortAsc(s) ==
    IF s = <<>> THEN <<>>
    ELSE InsertAsc(SortAsc(Tail(s)), s[1])

\* A slip: of an even number of days, only the lower middle one is taken.
Median2LowerMiddle(daily) ==
    LET v == SortAsc([k \in DOMAIN daily |-> daily[k].amount])
        n == Len(v)
    IN  IF n = 0 THEN 0 ELSE 2 * v[(n + 1) \div 2]

\* 2 * daily.median() (line 80): the middle value, or the mean of the two
\* middle values; doubled, so that it is an integer. 0 for no values.
Median2(daily) ==
    LET v == SortAsc([k \in DOMAIN daily |-> daily[k].amount])
        n == Len(v)
    IN  IF n = 0 THEN 0
        ELSE IF n % 2 = 1 THEN 2 * v[(n + 1) \div 2]
        ELSE v[n \div 2] + v[n \div 2 + 1]

\* A slip: the days at or above the median are taken.
IsHighDayFromMedian(amount, median2) == 2 * amount >= median2

\* daily > threshold with threshold = 1.5 * median_daily (lines 83-84)
IsHighDay(amount, median2) == 4 * amount > 3 * median2

\* Impulse spikes (lines 72-88): the spike days, and extra_spend as a
\* fraction num / den of mills (full precision).
ImpulseSpikes(t) ==
    LET exp_rows == ExpenseRows(t)
        daily    == DailyTotals(exp_rows)
        median2  == Median2(daily)
        high     == SelectSeq(daily, LAMBDA d : IsHighDay(d.amount, median2))
    IN  IF exp_rows # <<>> /\ median2 > 0
        THEN [days |-> [k \in DOMAIN high |-> high[k].date],
              extra_num |-> SumSeq([k \in DOMAIN high |-> 2 * high[k].amount - median2]),
              extra_den |-> 2]
        ELSE [days |-> <<>>, extra_num |-> 0, extra_den |-> 2]

Word_fee          == <<"f","e","e">>
Word_charge       == <<"c","h","a","r","g","e">>
Word_penalty      == <<"p","e","n","a","l","t","y">>
Word_fine         == <<"f","i","n","e">>
Word_interest     == <<"i","n","t","e","r","e","s","t">>
Word_subscription == <<"s","u","b","s","c","r","i","p","t","i","o","n">>
Word_subscriptions == Word_subscription \o <<"s">>
Word_shopping     == <<"s","h","o","p","p","i","n","g">>

\* text = df["description"].astype(str).str.lower() (line 60)
DescriptionText(row) == Lower(Str(row["description"]))

\* df.get("category", pd.Series([None] * len(df))).astype(str).str.lower()
CategoryText(row) == Lower(Str(Get(row, "category", None)))

\* fees_mask (lines 61-67)
FeesMask(row) ==
    /\ \/ Contains(DescriptionText(row), Word_fee)
       \/ Contains(DescriptionText(row), Word_charge)
       \/ Contains(DescriptionText(row), Word_penalty)
       \/ Contains(DescriptionText(row), Word_fine)
       \/ Contains(DescriptionText(row), Word_interest)
    /\ ~row["is_income"]

\* subs_mask (lines 93-95)
SubsMask(row) ==
    /\ \/ CategoryText(row) = Word_subscriptions
       \/ Contains(DescriptionText(row), Word_subscription)
    /\ ~row["is_income"]

\* Cashflow health (lines 100-110), on the values of the stats record
CashflowFlag(st) ==
    IF st.net < 0 THEN "critical"
    ELSE IF st.savings_rate < 100 THEN "warning"
    ELSE "ok"

\* detect_patterns (lines 48-126)
detect_patterns(t) ==
    LET fee_rows == SelectSeq(t.rows, FeesMask)
        sub_rows == SelectSeq(t.rows, SubsMask)
        spikes   == ImpulseSpikes(t)
    IN  [high_fees      |-> [count |-> Len(fee_rows),
                             total |-> Round2(AmountSum(fee_rows), 1)],
         impulse_spikes |-> [days        |-> spikes.days,
                             extra_spend |-> Round2(spikes.extra_num, spikes.extra_den)],
         subscriptions  |-> [count |-> Len(sub_rows),
                             total |-> Round2(AmountSum(sub_rows), 1)],
         cashflow_flag  |-> CashflowFlag(compute_basic_stats(t))]

\* A slip: the table of the caller is narrowed to its expenses.
TableNarrowedToExpenses(t) == Table(t.columns, ExpenseRows(t))

\* The table of the caller when detect_patterns returns: the function works
\* on df.copy() (lines 56-57), the table handed in is as it was.
TableAfterDetectPatterns(t) == t

\* A ratio of two floats, kept exact: num / den with den > 0.
Frac(num, den) == [num |-> num, den |-> den]

FracAdd(a, b) == Frac(a.num * b.den + b.num * a.den, a.den * b.den)

\* a > b
FracGreater(a, b) == a.num * b.den > b.num * a.den

RECURSIVE FracSum(_)
FracSum(s) == IF s = <<>> THEN Frac(0, 1) ELSE FracAdd(s[1], FracSum(Tail(s)))

\* grp[col].mean()
FracMean(s) == LET t == FracSum(s) IN Frac(t.num, t.den * Len(s))

\* timestamp.dt.to_period("M") (line 150): the calendar month
PeriodOf(ts) == ts.month

\* ascending order of a set of integers (the group keys of groupby)
RECURSIVE SortedInts(_)
SortedInts(S) ==
    IF S = {} THEN <<>>
    ELSE LET m == CHOOSE x \in S : \A y \in S : x <= y
         IN  <<m>> \o SortedInts(S \ {m})

\* total_expense if total_expense > 0 else 1e-6 (line 157), as a divisor of
\* amounts in mills: 1e-6 is a thousandth of a mill
ShareOf(spend, total_expense) ==
    IF total_expense > 0 THEN Frac(spend, total_expense) ELSE Frac(1000 * spend, 1)

\* shop_mask (line 170)
ShopMask(row) == CategoryText(row) = Word_shopping /\ ~row["is_income"]

\* One row of monthly_df (lines 153-182): the features of one period
MonthlyFeatures(t, period) ==
    LET group == Table(t.columns,
                       SelectSeq(t.rows, LAMBDA r : PeriodOf(r["timestamp"]) = period))
        st    == compute_basic_stats(group)
    IN  [period         |-> period,
         savings_rate   |-> st.savings_rate,
         total_expense  |-> st.total_expense,
         subs_share     |-> ShareOf(AmountSum(SelectSeq(group.rows, SubsMask)),
                                    st.total_expense),
         shopping_share |-> ShareOf(AmountSum(SelectSeq(group.rows, ShopMask)),
                                    st.total_expense)]

\* monthly_df (line 184): one row per period, in the order of the periods
MonthlyDf(t) ==
    LET periods == SortedInts({PeriodOf(t.rows[i]["timestamp"]) : i \in DOMAIN t.rows})
    IN  [k \in DOMAIN periods |-> MonthlyFeatures(t, periods[k])]

\* A slip: the subscription share is tested before the savings rate.
HeuristicLabelSharesFirst(row) ==
    IF FracGreater(row.subs_share, Frac(1, 5)) THEN "Subscription Heavy"
    ELSE IF row.savings_rate >= 400 THEN "Super Saver"
    ELSE IF FracGreater(row.shopping_share, Frac(1, 4)) THEN "Lifestyle Spender"
    ELSE "Balanced"

\* The heuristic label of a single month (lines 192-199)
HeuristicLabel(row) ==
    IF row.savings_rate >= 400 THEN "Super Saver"
    ELSE IF FracGreater(row.subs_share, Frac(1, 5)) THEN "Subscription Heavy"
    ELSE IF FracGreater(row.shopping_share, Frac(1, 4)) THEN "Lifestyle Spender"
    ELSE "Balanced"

\* _default_cluster_descriptions (lines 276-282): the personas described
DefaultClusterDescriptions ==
    {"Super Saver", "Balanced", "Subscription Heavy", "Lifestyle Spender"}

\* n_clusters: int = 3 (line 130)
n_clusters == 3

\* A slip: one cluster per month, however many months there are.
ClusterCountOfMonths(n) == n

\* k = min(n_clusters, len(monthly_df)) (line 214)
ClusterCount(n) == IF n_clusters < n THEN n_clusters ELSE n

\* What kmeans.fit_predict can return for n months (lines 215-216): a cluster
\* id in 0..k-1 for every month.
ClusterAssignments(n) == [1..n -> 0..(ClusterCount(n) - 1)]

\* cluster_info (lines 219-229): the means of the clusters that occur, in the
\* order of the cluster ids
ClusterInfo(monthly, cluster) ==
    LET ids == SortedInts({cluster[i] : i \in DOMAIN cluster})
        members(c) ==
            LET at == SelectSeq([i \in DOMAIN monthly |-> i], LAMBDA i : cluster[i] = c)
            IN  [j \in DOMAIN at |-> monthly[at[j]]]
    IN  [k \in DOMAIN ids |->
            LET grp == members(ids[k])
            IN  [cluster         |-> ids[k],
                 mean_savings    |-> Frac(SumSeq([i \in DOMAIN grp |-> grp[i].savings_rate]),
                                          Len(grp)),
                 mean_subs_share |-> FracMean([i \in DOMAIN grp |-> grp[i].subs_share]),
                 mean_shop_share |-> FracMean([i \in DOMAIN grp |-> grp[i].shopping_share])]]

\* A slip: the first entry is taken, whatever the keys.
FirstListed(infos, keys) == infos[1].cluster

\* max(infos, key=...)["cluster"], keys[i] being the key of infos[i]: the
\* first entry whose key no entry exceeds
MaxBy(infos, keys) ==
    LET best == CHOOSE i \in DOMAIN infos :
                    /\ \A j \in DOMAIN infos : ~FracGreater(keys[j], keys[i])
                    /\ \A j \in 1..(i - 1) : FracGreater(keys[i], keys[j])
    IN  infos[best].cluster

\* cluster_labels[c] = label
SetLabel(labels, c, label) ==
    [x \in DOMAIN labels \cup {c} |-> IF x = c THEN label ELSE labels[x]]

\* A slip: the chosen cluster is not removed from remaining_ids.
DiscardNothing(ids, c) == ids

\* remaining_ids.discard(c)
Discard(ids, c) == ids \ {c}

\* The greedy assignment of labels to clusters (lines 231-261)
ClusterLabels(info) ==
    LET remaining0 == {info[i].cluster : i \in DOMAIN info}
        among(rem) == SelectSeq(info, LAMBDA c : c.cluster \in rem)
        \* 1) Super Saver: highest savings_rate
        saver      == MaxBy(info, [i \in DOMAIN info |-> info[i].mean_savings])
        labels1    == SetLabel(EmptyDict, saver, "Super Saver")
        remaining1 == Discard(remaining0, saver)
        \* 2) Subscription Heavy: highest subs_share among remaining
        subs       == LET rest == among(remaining1)
                      IN  MaxBy(rest, [i \in DOMAIN rest |-> rest[i].mean_subs_share])
        labels2    == IF remaining1 # {}
                      THEN SetLabel(labels1, subs, "Subscription Heavy") ELSE labels1
        remaining2 == IF remaining1 # {} THEN Discard(remaining1, subs) ELSE remaining1
        \* 3) Lifestyle Spender: highest shopping_share among remaining
        shop       == LET rest == among(remaining2)
                      IN  MaxBy(rest, [i \in DOMAIN rest |-> rest[i].mean_shop_share])
        labels3    == IF remaining2 # {}
                      THEN SetLabel(labels2, shop, "Lifestyle Spender") ELSE labels2
        remaining3 == IF remaining2 # {} THEN Discard(remaining2, shop) ELSE remaining2
    IN  \* 4) Everything else -> Balanced
        [c \in DOMAIN labels3 \cup remaining3 |->
            IF c \in remaining3 THEN "Balanced" ELSE labels3[c]]

\* labels_by_period of the heuristic path (lines 189-200)
HeuristicLabels(monthly) ==
    [p \in {monthly[i].period : i \in DOMAIN monthly} |->
        HeuristicLabel(monthly[CHOOSE i \in DOMAIN monthly : monthly[i].period = p])]

\* labels_by_period of the clustering path (lines 263-266)
ClusteredLabels(monthly, cluster, cluster_labels) ==
    [p \in {monthly[i].period : i \in DOMAIN monthly} |->
        LET i == CHOOSE j \in DOMAIN monthly : monthly[j].period = p
        IN  Get(cluster_labels, cluster[i], "Balanced")]

\* build_behaviour_profiles (lines 129-273), given monthly_df and what
\* fit_predict returns for it; cluster_labels is the function's local dict
\* (empty on the paths that do not cluster).
build_behaviour_profiles(t, monthly, cluster) ==
    IF t.rows = <<>> \/ monthly = <<>>
    THEN [labels_by_period |-> EmptyDict, cluster_descriptions |-> {},
          cluster_labels |-> EmptyDict]
    ELSE IF Len(monthly) < 2
    THEN [labels_by_period |-> HeuristicLabels(monthly),
          cluster_descriptions |-> DefaultClusterDescriptions,
          cluster_labels |-> EmptyDict]
    ELSE LET cluster_labels == ClusterLabels(ClusterInfo(monthly, cluster))
         IN  [labels_by_period |-> ClusteredLabels(monthly, cluster, cluster_labels),
              cluster_descriptions |-> DefaultClusterDescriptions,
              cluster_labels |-> cluster_labels]

\* df_all["period"] = df_all["timestamp"].dt.to_period("M").astype(str)
\* (main.py line 553)
WithPeriodColumn(t) ==
    Table(t.columns \cup {"period"},
          [i \in DOMAIN t.rows |->
              [c \in t.columns \cup {"period"} |->
                  IF c = "period" THEN PeriodOf(t.rows[i]["timestamp"])
                  ELSE t.rows[i][c]]])

\* A float or None.
NoFloat == [null |-> TRUE, value |-> 0]
Float(x) == [null |-> FALSE, value |-> x]

\* A slip: 0.0 stands for "no baseline".
DeltaPctZeroForNoBaseline(delta_num, base_sum) ==
    IF base_sum > 0 THEN Float(Round3(delta_num, base_sum)) ELSE Float(0)

\* delta_pct (lines 338-341 and 349) of delta = delta_num / base_months and
\* baseline = base_sum / base_months: round(delta / baseline, 3), or None
DeltaPct(delta_num, base_sum) ==
    IF base_sum > 0 THEN Float(Round3(delta_num, base_sum)) ELSE NoFloat

\* A slip: the baseline is the total over the baseline periods.
TrendRowBaselineTotal(cat, cur_sum, base_sum, base_months) ==
    [category  |-> Str(cat),
     current   |-> Round2(cur_sum, 1),
     baseline  |-> Round2(base_sum, 1),
     delta     |-> Round2(cur_sum - base_sum, 1),
     delta_pct |-> DeltaPct(cur_sum - base_sum, base_sum)]

\* One row of the result (lines 335-351) for a category with the current
\* sum cur_sum and the sum base_sum over base_months baseline periods
TrendRow(cat, cur_sum, base_sum, base_months) ==
    [category  |-> Str(cat),
     current   |-> Round2(cur_sum, 1),
     baseline  |-> Round2(base_sum, base_months),
     delta     |-> Round2(cur_sum * base_months - base_sum, base_months),
     delta_pct |-> DeltaPct(cur_sum * base_months - base_sum, base_sum)]

\* sort_key (lines 354-357)
TrendSortKey(row) ==
    IF row.delta_pct.null THEN 0
    ELSE IF row.delta_pct.value < 0 THEN -row.delta_pct.value
    ELSE row.delta_pct.value

\* A slip: the rows are left in the order in which they were built.
LeftUnsorted(rows) == rows

\* sorted(rows, key=sort_key, reverse=True) (line 359): descending, rows
\* with equal keys in their order in rows
RECURSIVE InsertByKeyDesc(_, _)
InsertByKeyDesc(sorted, row) ==
    IF sorted = <<>> THEN <<row>>
    ELSE IF TrendSortKey(sorted[1]) >= TrendSortKey(row)
         THEN <<sorted[1]>> \o InsertByKeyDesc(Tail(sorted), row)
         ELSE <<row>> \o sorted

RECURSIVE SortedByKeyDesc(_)
SortedByKeyDesc(rows) ==
    IF rows = <<>> THEN <<>>
    ELSE InsertByKeyDesc(SortedByKeyDesc(SubSeq(rows, 1, Len(rows) - 1)),
                         rows[Len(rows)])

\* The expenses of the current period and of the other periods (lines 308-311)
CurrentRows(t, period)  == SelectSeq(ExpenseRows(t), LAMBDA r : r["period"] = period)
BaselineRows(t, period) == SelectSeq(ExpenseRows(t), LAMBDA r : r["period"] # period)

\* cats (line 331): the group keys of the current and of the baseline sums
TrendCategories(t, period) ==
    GroupKeys(CurrentRows(t, period)) \cup GroupKeys(BaselineRows(t, period))

\* The orders in which "for cat in cats" (line 334) can visit a set
IterationOrders(S) ==
    {o \in [1..Cardinality(S) -> S] : \A i, j \in 1..Cardinality(S) : i # j => o[i] # o[j]}

CategorySum(rows, cat) == AmountSum(SelectSeq(rows, LAMBDA r : r["category"] = cat))

\* compute_category_trends (lines 284-360), the set cats visited in order
compute_category_trends(t, period, order) ==
    IF "period" \notin t.columns THEN <<>>
    ELSE LET cur  == CurrentRows(t, period)
             base == BaselineRows(t, period)
             base_months == Cardinality({base[i]["period"] : i \in DOMAIN base})
         IN  IF cur = <<>> \/ base = <<>> THEN <<>>
             ELSE IF base_months = 0 THEN <<>>
             ELSE SortedByKeyDesc(
                      [k \in DOMAIN order |->
                          TrendRow(order[k], CategorySum(cur, order[k]),
                                   CategorySum(base, order[k]), base_months)])

----------------------------------------------------------------------------
(* src/app/services/actions.py                                             *)

\* An action string: the template (rule) and the values interpolated in it.
\* Two action strings are equal exactly when template and values are equal.
ActionStr(rule, n, amt, day, cat) ==
    [rule |-> rule, n |-> n, amt |-> amt, day |-> day, cat |-> cat]

FixedStr(rule) == ActionStr(rule, 0, 0, <<>>, <<>>)

\* 1) Savings baseline: exactly one of the three tiers (lines 25-37)
SavingsAction(savings_rate) ==
    IF savings_rate < 100 THEN <<FixedStr("savings_automatic_transfer")>>
    ELSE IF savings_rate < 250 THEN <<FixedStr("savings_increase")>>
    ELSE <<FixedStr("savings_protect")>>

\* 2) Fees / charges (lines 39-43)
FeesAction(fees_total, fees_count) ==
    IF fees_total > 0
    THEN <<ActionStr("fees_review", fees_count, Fmt0(fees_total), <<>>, <<>>)>>
    ELSE <<>>

\* 3) Impulse spikes (lines 45-49)
SpikesAction(spike_days, extra_spend) ==
    IF spike_days # <<>> /\ extra_spend > 0
    THEN <<ActionStr("spike_plan", 0, Fmt0(extra_spend), spike_days[1], <<>>)>>
    ELSE <<>>

\* 4) Subscriptions (lines 51-55)
SubsAction(subs_total) ==
    IF subs_total > 0
    THEN <<ActionStr("subscription_audit", 0, Fmt0(subs_total), <<>>, <<>>)>>
    ELSE <<>>

\* 5) Top category nudge (lines 57-63); a falsy category is None or ""
TopCategoryAction(cats) ==
    IF cats # <<>>
    THEN LET top_cat == cats[1]
             c == Get(top_cat, "category", None)
         IN  IF c # None /\ c # <<>>
             THEN <<ActionStr("top_category_rule", 0, 0, <<>>, c)>>
             ELSE <<>>
    ELSE <<>>

\* Guarantee at least 3 actions (lines 65-69): ONE filler, appended once
FillerAction(acts) ==
    IF Len(acts) < 3 THEN <<FixedStr("monthly_review")>> ELSE <<>>

\* Deduplicate while preserving order (lines 71-77)
RECURSIVE DedupFrom(_, _)
DedupFrom(acts, seen) ==
    IF acts = <<>> THEN <<>>
    ELSE IF acts[1] \in seen THEN DedupFrom(Tail(acts), seen)
    ELSE <<acts[1]>> \o DedupFrom(Tail(acts), seen \cup {acts[1]})

Deduped(acts) == DedupFrom(acts, {})

\* deduped[:5] (line 79)
FirstFive(s) == SubSeq(s, 1, IF Len(s) < 5 THEN Len(s) ELSE 5)

\* A slip: the subscription rule placed before the spike rule.
RuleActionsReordered(st, cats, pat) ==
    LET fees   == Get(pat, "high_fees", EmptyDict)
        subs   == Get(pat, "subscriptions", EmptyDict)
        spikes == Get(pat, "impulse_spikes", EmptyDict)
    IN  SavingsAction(Get(st, "savings_rate", 0))
        \o FeesAction(Get(fees, "total", 0), Get(fees, "count", 0))
        \o SubsAction(Get(subs, "total", 0))
        \o SpikesAction(Get(spikes, "days", <<>>), Get(spikes, "extra_spend", 0))
        \o TopCategoryAction(cats)

\* The actions appended by rules 1-5, in the order of the code.
RuleActions(st, cats, pat) ==
    LET savings_rate == Get(st, "savings_rate", 0)
        fees        == Get(pat, "high_fees", EmptyDict)
        subs        == Get(pat, "subscriptions", EmptyDict)
        spikes      == Get(pat, "impulse_spikes", EmptyDict)
        fees_total  == Get(fees, "total", 0)
        fees_count  == Get(fees, "count", 0)
        subs_total  == Get(subs, "total", 0)
        spike_days  == Get(spikes, "days", <<>>)
        extra_spend == Get(spikes, "extra_spend", 0)
    IN  SavingsAction(savings_rate)
        \o FeesAction(fees_total, fees_count)
        \o SpikesAction(spike_days, extra_spend)
        \o SubsAction(subs_total)
        \o TopCategoryAction(cats)

recommend_actions_for_next_month(st, cats, pat) ==
    LET acts == RuleActions(st, cats, pat)
    IN  FirstFive(Deduped(acts \o FillerAction(acts)))

\* The position of a template in the order of the rules.
RuleRank(rule) ==
    CASE rule \in {"savings_automatic_transfer", "savings_increase",
                   "savings_protect"} -> 1
      [] rule = "fees_review"         -> 2
      [] rule = "spike_plan"          -> 3
      [] rule = "subscription_audit"  -> 4
      [] rule = "top_category_rule"   -> 5
      [] rule = "monthly_review"      -> 6

----------------------------------------------------------------------------
(* src/app/services/storyteller.py                                         *)

\* The ways the optional text-generation step of _llm_story can end:
\* OPENAI_API_KEY unset or empty (lines 84-86), the openai package missing
\* (lines 88-91), OpenAI(api_key=...) raising (line 93), the request or the
\* reading of its answer raising (lines 119-132), an answer without text
\* (None or ""), an answer of white space only, an answer with text.
LlmOutcomes ==
    {"no_api_key", "import_error", "client_error", "request_error",
     "empty", "blank", "text"}

\* What a call gives back: a value, or an exception that leaves the call.
Returned(value) == [raised |-> FALSE, value |-> value]
Raised == [raised |-> TRUE, value |-> None]

\* The stripped text of an answer that has one.
LlmText == <<"H","i">>

\* _llm_story (lines 74-132): only the import and the request are inside a
\* try; the construction of the client at line 93 is not.
llm_story(outcome) ==
    IF outcome = "no_api_key" THEN Returned(None)
    ELSE IF outcome = "import_error" THEN Returned(None)
    ELSE IF outcome = "client_error" THEN Raised
    ELSE IF outcome = "request_error" THEN Returned(None)
    ELSE IF outcome = "empty" THEN Returned(None)
    ELSE IF outcome = "blank" THEN Returned(<<>>)
    ELSE Returned(LlmText)

\* categories[:3] (line 26)
FirstThree(s) == SubSeq(s, 1, IF Len(s) < 3 THEN Len(s) ELSE 3)

\* tone (lines 39-43)
Tone(flag) ==
    IF flag = "critical" THEN "at_risk"
    ELSE IF flag = "warning" THEN "okay_but_thin"
    ELSE "steady_and_healthy"

\* _template_story (lines 11-71): the values that fill the template
template_story(period, st, cats, pat) ==
    LET top_cats == FirstThree(cats)
    IN  [period       |-> period,
         income       |-> Fmt0(st["total_income"]),
         expense      |-> Fmt0(st["total_expense"]),
         net          |-> Fmt0(st["net"]),
         savings_pct  |-> st["savings_rate"],
         tone         |-> Tone(pat["cashflow_flag"]),
         cats_text    |-> [i \in DOMAIN top_cats |->
                              <<Str(top_cats[i]["category"]),
                                Fmt0(top_cats[i]["total_spend"])>>],
         fees_total   |-> Fmt0(pat["high_fees"]["total"]),
         fees_count   |-> pat["high_fees"]["count"],
         spike_days   |-> Len(pat["impulse_spikes"]["days"]),
         extra_spend  |-> Fmt0(pat["impulse_spikes"]["extra_spend"]),
         subs_total   |-> Fmt0(pat["subscriptions"]["total"]),
         subs_count   |-> pat["subscriptions"]["count"]]

\* build_money_story (lines 135-148): the text of the service when it is
\* truthy, else the template; an exception of _llm_story is not caught.
build_money_story(period, st, cats, pat, outcome) ==
    LET llm_text == llm_story(outcome)
    IN  IF llm_text.raised THEN Raised
        ELSE IF llm_text.value # None /\ llm_text.value # <<>>
        THEN Returned(llm_text.value)
        ELSE Returned(template_story(period, st, cats, pat))

----------------------------------------------------------------------------
(* Inputs                                                                  *)

\* The most rows a table of the model holds.
MaxTx == 2

\* Descriptions: one that holds no keyword, and some that hold keywords.
Desc_gift       == <<"g","i","f","t">>
Desc_Zomato     == <<"Z","o","m","a","t","o">>
Desc_LateFee    == <<"L","a","t","e"," ","f","e","e">>
Desc_NetflixFee == <<"N","E","T","F","L","I","X"," ","f","e","e">>
Blank           == <<" ", " ">>

\* The columns main.py loads from the transactions table (lines 431-439).
TxColumns == {"timestamp", "amount", "is_income", "category", "description",
              "source", "account_name"}

Tx(ts, amount, is_income, category, description, source, account_name) ==
    [timestamp |-> ts, amount |-> amount, is_income |-> is_income,
     category |-> category, description |-> description, source |-> source,
     account_name |-> account_name]

Noon(month, day) == [month |-> month, day |-> day, hour |-> 12]

\* All tables of 1..n rows drawn from the set Rows.
TablesOf(Rows, n) ==
    {Table(TxColumns, rows) : rows \in UNION {[1..k -> Rows] : k \in 1..n}}

Idle ==
    /\ current_period = 0
    /\ df = NotComputed
    /\ stats = NotComputed
    /\ categories = NotComputed
    /\ patterns = NotComputed
    /\ actions = NotComputed
    /\ profiles = NotComputed
    /\ clustering = NotComputed
    /\ trends = NotComputed
    /\ story = NotComputed

----------------------------------------------------------------------------
(* The handler actions_next_month (main.py lines 441-447): one month's     *)
(* transactions, resolved, then analysed.                                  *)

\* Amounts in mills: 0.004, 90.04 and 100.00
MonthAmounts == {4, 90040, 100000}

MonthRows ==
    {Tx(Noon(1, 1), a, inc, c, d, None, None) :
        a \in MonthAmounts, inc \in BOOLEAN,
        c \in {None, Cat_Food}, d \in {Desc_gift, Desc_LateFee}}

Init ==
    /\ raw \in TablesOf(MonthRows, MaxTx)
    /\ half_up \in BOOLEAN
    /\ pc = "resolve"
    /\ Idle

\* df = apply_auto_categories_to_df(df) (main.py line 442)
Resolve ==
    /\ pc = "resolve"
    /\ raw' = WithCategoryColumn(raw)
    /\ df' = apply_auto_categories_to_df(raw)
    /\ pc' = "stats"
    /\ UNCHANGED <<current_period, half_up, stats, categories, patterns,
                   actions, profiles, clustering, trends, story>>

\* stats = compute_basic_stats(df) (line 444)
BasicStats ==
    /\ pc = "stats"
    /\ stats' = compute_basic_stats(df)
    /\ pc' = "categories"
    /\ UNCHANGED <<raw, df, current_period, half_up, categories, patterns,
                   actions, profiles, clustering, trends, story>>

\* categories = compute_category_breakdown(df) (line 445)
CategoryBreakdown ==
    /\ pc = "categories"
    /\ categories' = compute_category_breakdown(df)
    /\ pc' = "patterns"
    /\ UNCHANGED <<raw, df, current_period, half_up, stats, patterns,
                   actions, profiles, clustering, trends, story>>

\* patterns = detect_patterns(df) (line 446)
DetectPatterns ==
    /\ pc = "patterns"
    /\ patterns' = detect_patterns(df)
    /\ df' = TableAfterDetectPatterns(df)
    /\ pc' = "actions"
    /\ UNCHANGED <<raw, current_period, half_up, stats, categories,
                   actions, profiles, clustering, trends, story>>

\* actions = recommend_actions_for_next_month(stats, categories, patterns)
\* (line 447)
RecommendActions ==
    /\ pc = "actions"
    /\ actions' = recommend_actions_for_next_month(stats, categories, patterns)
    /\ pc' = "done"
    /\ UNCHANGED <<raw, df, current_period, half_up, stats, categories,
                   patterns, profiles, clustering, trends, story>>

Next ==
    \/ Resolve
    \/ BasicStats
    \/ CategoryBreakdown
    \/ DetectPatterns
    \/ RecommendActions

Spec == Init /\ [][Next]_vars

----------------------------------------------------------------------------
(* recommend_actions_for_next_month on any stats / categories / patterns   *)

Day1 == <<1, 3>>
Day2 == <<1, 17>>

StatsInputs ==
    {[total_income |-> 100000, total_expense |-> 100000 - n, net |-> n,
      savings_rate |-> n \div 100] :
        n \in {-20000, 0, 9900, 10000, 24900, 25000, 40000}}

CategoriesInputs ==
    {<<>>,
     <<[category |-> Cat_Food, total_spend |-> 3000]>>,
     <<[category |-> <<>>, total_spend |-> 3000]>>,
     <<[category |-> Cat_Shopping, total_spend |-> 3000],
       [category |-> Cat_Food, total_spend |-> 2000]>>}

PatternsInputs ==
    {[high_fees      |-> [count |-> fc, total |-> ft],
      impulse_spikes |-> [days |-> days, extra_spend |-> extra],
      subscriptions  |-> [count |-> sc, total |-> st],
      cashflow_flag  |-> "ok"] :
        fc \in {0, 2}, ft \in {0, 1230500},
        days \in {<<>>, <<Day1>>, <<Day1, Day2>>}, extra \in {0, 900000},
        sc \in {0, 1}, st \in {0, 499000}}

InitActions ==
    /\ raw = Table(TxColumns, <<>>)
    /\ half_up \in BOOLEAN
    /\ current_period = 0
    /\ df = NotComputed
    /\ stats \in StatsInputs
    /\ categories \in CategoriesInputs
    /\ patterns \in PatternsInputs
    /\ actions = NotComputed
    /\ profiles = NotComputed
    /\ clustering = NotComputed
    /\ trends = NotComputed
    /\ story = NotComputed
    /\ pc = "actions"

NextActions == RecommendActions

SpecActions == InitActions /\ [][NextActions]_vars

----------------------------------------------------------------------------
(* apply_auto_categories_to_df on tables with any category and text        *)

Source_UPI == <<"U","P","I">>

ResolveRows ==
    {Tx(Noon(1, 1), 100000, FALSE, c, d, s, None) :
        c \in {None, <<>>, Blank, Cat_Food},
        d \in {None, Desc_gift, Desc_Zomato, Desc_NetflixFee},
        s \in {None, Source_UPI}}

\* No number is rounded by the resolver: half_up plays no part and is fixed.
InitResolve ==
    /\ raw \in TablesOf(ResolveRows, MaxTx)
    /\ half_up = FALSE
    /\ pc = "resolve"
    /\ Idle

NextResolve == Resolve

SpecResolve == InitResolve /\ [][NextResolve]_vars

----------------------------------------------------------------------------
(* detect_patterns on one month's expenses spread over several dates       *)

\* The most rows of a table of dated expenses.
MaxSpikeTx == 4

\* The days of the month on which the transactions fall.
SpikeDays == {3, 4, 17, 30}

\* Amounts in mills: 100.00 and 1000.00 on the days, but the first day
\* without a large and the last day without a small expense; the large ones
\* spent in the evening and the others in the morning; a day without amount
\* spent (0); one kind of income row.
SpikeRows ==
    {Tx([month |-> 1, day |-> p[1], hour |-> IF p[2] = 1000000 THEN 21 ELSE 9],
        p[2], FALSE, Cat_Food, Desc_gift, None, None) :
        p \in (SpikeDays \X {100000, 1000000}) \ {<<3, 1000000>>, <<30, 100000>>}}
    \cup {Tx([month |-> 1, day |-> 4, hour |-> 9], 0, FALSE, Cat_Food,
             Desc_gift, None, None),
          Tx([month |-> 1, day |-> 3, hour |-> 9], 100000, TRUE, Cat_Salary,
             Desc_gift, None, None)}

\* Every amount is a multiple of 100.00 and at most MaxSpikeTx + 1 rows are
\* summed, so no value that is rounded here lies half-way between two
\* decimals: half_up plays no part and is fixed.
InitSpikes ==
    /\ raw \in TablesOf(SpikeRows, MaxSpikeTx)
    /\ df = raw
    /\ half_up = FALSE
    /\ current_period = 0
    /\ stats = NotComputed
    /\ categories = NotComputed
    /\ patterns = NotComputed
    /\ actions = NotComputed
    /\ profiles = NotComputed
    /\ clustering = NotComputed
    /\ trends = NotComputed
    /\ story = NotComputed
    /\ pc = "patterns"

NextSpikes == DetectPatterns

SpecSpikes == InitSpikes /\ [][NextSpikes]_vars

----------------------------------------------------------------------------
(* build_behaviour_profiles on a history of up to three months             *)

\* The most rows of a history.
MaxProfileTx == 3

ProfileMonths == {1, 2, 3}

\* Amounts in mills (0.10, 0.02, 0.06): an income, a subscription and a
\* shopping expense in any month, a food expense and an expense of 0.
ProfileRows ==
    {Tx(Noon(m, 1), 100, TRUE, Cat_Salary, Desc_gift, None, None) : m \in ProfileMonths}
    \cup {Tx(Noon(m, 2), 20, FALSE, Cat_Subscriptions, Desc_gift, None, None) :
             m \in ProfileMonths}
    \cup {Tx(Noon(m, 3), 20, FALSE, Cat_Shopping, Desc_gift, None, None) :
             m \in ProfileMonths}
    \cup {Tx(Noon(1, 4), 60, FALSE, Cat_Food, Desc_gift, None, None)}
    \cup {Tx(Noon(1, 5), 0, FALSE, Cat_Subscriptions, Desc_gift, None, None)}

\* The histories are the tables of these rows and the table without rows.
\* Every sum of these amounts is a whole number of cents, and no savings
\* rate of at most MaxProfileTx + 1 of these rows lies half-way between two
\* thousandths: half_up plays no part and is fixed.
InitProfiles ==
    /\ raw \in TablesOf(ProfileRows, MaxProfileTx) \cup {Table(TxColumns, <<>>)}
    /\ df = raw
    /\ half_up = FALSE
    /\ current_period = 0
    /\ stats = NotComputed
    /\ categories = NotComputed
    /\ patterns = NotComputed
    /\ actions = NotComputed
    /\ profiles = NotComputed
    /\ clustering = NotComputed
    /\ trends = NotComputed
    /\ story = NotComputed
    /\ pc = "profiles"

\* profiles = build_behaviour_profiles(df_all) (main.py line 589), up to the
\* call of fit_predict (analyzer.py lines 145-214): monthly_df is built, and
\* without two months the function returns.
ProfileMonths1 ==
    /\ pc = "profiles"
    /\ LET monthly == MonthlyDf(df)
           run     == build_behaviour_profiles(df, monthly, <<>>)
       IN  /\ clustering' = [monthly |-> monthly, cluster |-> <<>>,
                             cluster_labels |-> EmptyDict]
           /\ IF Len(monthly) < 2
              THEN /\ profiles' = [labels_by_period |-> run.labels_by_period,
                                   cluster_descriptions |-> run.cluster_descriptions]
                   /\ pc' = "done"
              ELSE /\ profiles' = profiles
                   /\ pc' = "fit_predict"
    /\ UNCHANGED <<raw, df, current_period, half_up, stats, categories,
                   patterns, actions, trends, story>>

\* build_behaviour_profiles from the return of fit_predict to its own return
\* (lines 216-273): the clusters are whatever fit_predict returns.
ProfileMonths2 ==
    /\ pc = "fit_predict"
    /\ \E cluster \in ClusterAssignments(Len(clustering.monthly)) :
          LET run == build_behaviour_profiles(df, clustering.monthly, cluster)
          IN  /\ profiles' = [labels_by_period |-> run.labels_by_period,
                              cluster_descriptions |-> run.cluster_descriptions]
              /\ clustering' = [clustering EXCEPT !.cluster = cluster,
                                    !.cluster_labels = run.cluster_labels]
    /\ pc' = "done"
    /\ UNCHANGED <<raw, df, current_period, half_up, stats, categories,
                   patterns, actions, trends, story>>

BuildProfiles == ProfileMonths1 \/ ProfileMonths2

NextProfiles == BuildProfiles

SpecProfiles == InitProfiles /\ [][NextProfiles]_vars

----------------------------------------------------------------------------
(* build_behaviour_profiles on a history of more months than n_clusters     *)

\* The most rows of a history of up to four months.
MaxClusterTx == 4

\* Amounts in mills (0.10, 0.02): an income in the first and in the fourth
\* month, a subscription expense in the first and in the second, a shopping
\* expense in the third and in the fourth.
ClusterRows ==
    {Tx(Noon(m, 1), 100, TRUE, Cat_Salary, Desc_gift, None, None) : m \in {1, 4}}
    \cup {Tx(Noon(m, 2), 20, FALSE, Cat_Subscriptions, Desc_gift, None, None) :
             m \in {1, 2}}
    \cup {Tx(Noon(m, 3), 20, FALSE, Cat_Shopping, Desc_gift, None, None) :
             m \in {3, 4}}

\* As in InitProfiles, no savings rate of these rows lies half-way between
\* two thousandths.
InitClusters ==
    /\ raw \in TablesOf(ClusterRows, MaxClusterTx)
    /\ df = raw
    /\ half_up = FALSE
    /\ current_period = 0
    /\ stats = NotComputed
    /\ categories = NotComputed
    /\ patterns = NotComputed
    /\ actions = NotComputed
    /\ profiles = NotComputed
    /\ clustering = NotComputed
    /\ trends = NotComputed
    /\ story = NotComputed
    /\ pc = "profiles"

NextClusters == BuildProfiles

SpecClusters == InitClusters /\ [][NextClusters]_vars

----------------------------------------------------------------------------
(* compute_category_trends on a history of up to three months              *)

\* The most rows of a history whose trends are compared.
MaxTrendTx == 3

TrendMonths == {1, 2, 3}

\* Amounts in mills (0 and 0.03): expenses of two categories in any month,
\* an expense without category and an income.
TrendRows ==
    {Tx(Noon(m, 1), a, FALSE, c, Desc_gift, None, None) :
        m \in TrendMonths, a \in {0, 30}, c \in {Cat_Food, Cat_Shopping}}
    \cup {Tx(Noon(1, 2), 30, FALSE, None, Desc_gift, None, None),
          Tx(Noon(3, 2), 100, TRUE, Cat_Salary, Desc_gift, None, None)}

InitTrends ==
    /\ raw \in TablesOf(TrendRows, MaxTrendTx)
    /\ df = WithPeriodColumn(raw)
    /\ half_up \in BOOLEAN
    /\ current_period \in {2, 3}
    /\ stats = NotComputed
    /\ categories = NotComputed
    /\ patterns = NotComputed
    /\ actions = NotComputed
    /\ profiles = NotComputed
    /\ clustering = NotComputed
    /\ trends = NotComputed
    /\ story = NotComputed
    /\ pc = "trends"

\* category_trends = compute_category_trends(df_all, period_label)
\* (main.py line 631)
CategoryTrends ==
    /\ pc = "trends"
    /\ \E order \in IterationOrders(TrendCategories(df, current_period)) :
          trends' = compute_category_trends(df, current_period, order)
    /\ pc' = "done"
    /\ UNCHANGED <<raw, df, current_period, half_up, stats, categories,
                   patterns, actions, profiles, clustering, story>>

NextTrends == CategoryTrends

SpecTrends == InitTrends /\ [][NextTrends]_vars

\* A second invocation of compute_category_trends on the same df_all and the
\* same current_period (a second request of the dashboard, or the same
\* request served by another process): the set cats is built anew and is
\* visited in an order of its own (lines 331 and 334).
CategoryTrendsAgain ==
    /\ pc = "done"
    /\ \E order \in IterationOrders(TrendCategories(df, current_period)) :
          trends' = compute_category_trends(df, current_period, order)
    /\ pc' = "twice"
    /\ UNCHANGED <<raw, df, current_period, half_up, stats, categories,
                   patterns, actions, profiles, clustering, story>>

NextTrendsTwice == CategoryTrends \/ CategoryTrendsAgain

SpecTrendsTwice == InitTrends /\ [][NextTrendsTwice]_vars

----------------------------------------------------------------------------
(* guess_category, as apply_auto_categories_to_df calls it for the rows    *)
(* without category (categorizer.py lines 105-111)                         *)

\* The most rows of a table whose categories are guessed.
MaxGuessTx == 2

Source_Uber    == <<"U","b","e","r">>
Account_Salary == <<"S","a","l","a","r","y"," ","a","/","c">>

\* Rows without category; description, source and account_name hold no
\* keyword, one keyword or two keywords of different categories.
GuessRows ==
    {Tx(Noon(1, 1), 100000, FALSE, None, d, s, a) :
        d \in {Desc_gift, Desc_LateFee, Desc_NetflixFee},
        s \in {None, Source_UPI, Source_Uber},
        a \in {None, Account_Salary}}

InitGuess ==
    /\ raw \in TablesOf(GuessRows, MaxGuessTx)
    /\ half_up = FALSE
    /\ pc = "resolve"
    /\ Idle

NextGuess == Resolve

SpecGuess == InitGuess /\ [][NextGuess]_vars

----------------------------------------------------------------------------
(* The components that are handed a transaction table, each called on a    *)
(* table of its caller: the resolver and detect_patterns in the handler's  *)
(* pipeline, build_behaviour_profiles and compute_category_trends alone.   *)

\* The most rows of a table handed to a component.
MaxFrameTx == 2

FrameRows ==
    {Tx(Noon(m, 1), 100, inc, c, Desc_gift, None, None) :
        m \in {1, 2}, inc \in BOOLEAN, c \in {None, Cat_Food}}

\* A table built without the optional column "category".
WithoutCategoryColumn(t) ==
    Table(t.columns \ {"category"},
          [i \in DOMAIN t.rows |->
              [c \in t.columns \ {"category"} |-> t.rows[i][c]]])

\* compute_category_trends groups by "category" and is handed tables that
\* have the column; the other components provide for its absence.
InitFrame ==
    /\ pc \in {"resolve", "profiles", "trends"}
    /\ raw \in TablesOf(FrameRows, MaxFrameTx)
              \cup (IF pc = "trends" THEN {}
                    ELSE {WithoutCategoryColumn(t) : t \in TablesOf(FrameRows, MaxFrameTx)})
    /\ df = (IF pc = "resolve" THEN NotComputed
             ELSE IF pc = "trends" THEN WithPeriodColumn(raw) ELSE raw)
    /\ half_up = FALSE
    /\ current_period = 2
    /\ stats = NotComputed
    /\ categories = NotComputed
    /\ patterns = NotComputed
    /\ actions = NotComputed
    /\ profiles = NotComputed
    /\ clustering = NotComputed
    /\ trends = NotComputed
    /\ story = NotComputed

NextFrame == Next \/ BuildProfiles \/ CategoryTrends

SpecFrame == InitFrame /\ [][NextFrame]_vars

----------------------------------------------------------------------------
(* build_money_story on any stats / categories / patterns, with every      *)
(* outcome of the text service                                             *)

StoryPatternsInputs ==
    {[p EXCEPT !["cashflow_flag"] = flag] :
        p \in {q \in PatternsInputs :
                  q["high_fees"]["count"] = 2 /\ q["subscriptions"]["count"] = 1},
        flag \in {"critical", "warning", "ok"}}

InitStory ==
    /\ raw = Table(TxColumns, <<>>)
    /\ half_up \in BOOLEAN
    /\ current_period = 1
    /\ df = NotComputed
    /\ stats \in StatsInputs
    /\ categories \in CategoriesInputs
    /\ patterns \in StoryPatternsInputs
    /\ actions = NotComputed
    /\ profiles = NotComputed
    /\ clustering = NotComputed
    /\ trends = NotComputed
    /\ story = NotComputed
    /\ pc = "story"

\* story = build_money_story(period_label, stats, categories, patterns)
\* (main.py line 383)
BuildMoneyStory ==
    /\ pc = "story"
    /\ \E outcome \in LlmOutcomes :
          story' = [llm    |-> outcome,
                    result |-> build_money_story(current_period, stats,
                                                 categories, patterns, outcome)]
    /\ pc' = "done"
    /\ UNCHANGED <<raw, df, current_period, half_up, stats, categories,
                   patterns, actions, profiles, clustering, trends>>

NextStory == BuildMoneyStory

SpecStory == InitStory /\ [][NextStory]_vars

----------------------------------------------------------------------------
(* detect_patterns called twice on the same month: by one request and then *)
(* by another one for the same month (main.py lines 380 and 446)           *)

\* The most rows of a month that is analysed twice.
MaxTwiceTx == 4

\* The rows of SpikeRows with an amount.
TwiceRows == {r \in SpikeRows : r["amount"] > 0}

\* As in InitSpikes, no value that is rounded lies half-way.
InitTwice ==
    /\ raw \in TablesOf(TwiceRows, MaxTwiceTx)
    /\ df = raw
    /\ half_up = FALSE
    /\ current_period = 0
    /\ stats = NotComputed
    /\ categories = NotComputed
    /\ patterns = NotComputed
    /\ actions = NotComputed
    /\ profiles = NotComputed
    /\ clustering = NotComputed
    /\ trends = NotComputed
    /\ story = NotComputed
    /\ pc = "patterns"

\* patterns = detect_patterns(df) of the second request, on the table the
\* first call was given
DetectPatternsAgain ==
    /\ pc = "actions"
    /\ patterns' = detect_patterns(df)
    /\ df' = TableAfterDetectPatterns(df)
    /\ pc' = "done"
    /\ UNCHANGED <<raw, current_period, half_up, stats, categories,
                   actions, profiles, clustering, trends, story>>

NextTwice == DetectPatterns \/ DetectPatternsAgain

SpecTwice == InitTwice /\ [][NextTwice]_vars

----------------------------------------------------------------------------
(* compute_category_breakdown on expenses of several categories            *)

\* The most rows of a table whose spend is broken down.
MaxBreakdownTx == 3

\* Amounts in mills (0.10 and 0.20) spent on three categories, and an
\* income; sums of them are whole cents, so half_up plays no part.
BreakdownRows ==
    {Tx(Noon(1, 1), a, FALSE, c, Desc_gift, None, None) :
        a \in {100, 200}, c \in {Cat_Shopping, Cat_Food, Cat_Transport}}
    \cup {Tx(Noon(1, 1), 100, TRUE, Cat_Salary, Desc_gift, None, None)}

InitBreakdown ==
    /\ raw \in TablesOf(BreakdownRows, MaxBreakdownTx)
    /\ df = raw
    /\ half_up = FALSE
    /\ current_period = 0
    /\ stats = NotComputed
    /\ categories = NotComputed
    /\ patterns = NotComputed
    /\ actions = NotComputed
    /\ profiles = NotComputed
    /\ clustering = NotComputed
    /\ trends = NotComputed
    /\ story = NotComputed
    /\ pc = "categories"

NextBreakdown == CategoryBreakdown

SpecBreakdown == InitBreakdown /\ [][NextBreakdown]_vars

----------------------------------------------------------------------------
(* Claims                                                                  *)

\* C1: recommend_actions_for_next_month always returns at least 3 entries,
\* whatever the fee total, subscription total, spike days and categories are.
C1_AtLeastThreeActions ==
    pc = "done" => Len(actions) >= 3

\* C2: the list returned by recommend_actions_for_next_month has at most 5
\* entries, holds no string twice, and its entries stand in the order of the
\* rules that produce them (savings, fees, spikes, subscriptions, top
\* category, filler).
C2_AtMostFiveDistinctInRuleOrder ==
    pc = "done" =>
        /\ Len(actions) <= 5
        /\ \A i, j \in DOMAIN actions : i < j => actions[i] # actions[j]
        /\ \A i, j \in DOMAIN actions :
              i < j => RuleRank(actions[i].rule) < RuleRank(actions[j].rule)

\* C2 witness: all five rules fired, and the five entries were returned.
C2_Witness ==
    /\ pc = "done"
    /\ Len(actions) = 5
    /\ actions[5].rule = "top_category_rule"

\* C3: the total_spend values of compute_category_breakdown sum to the
\* total_expense of compute_basic_stats for the same transaction set.
C3_BreakdownSumsToTotalExpense ==
    pc \in {"patterns", "actions", "done"} =>
        SumSeq([i \in DOMAIN categories |-> categories[i].total_spend])
            = stats.total_expense

\* |x|
Abs(x) == IF x < 0 THEN -x ELSE x

\* C4: with income and expense the sums of the income and expense amounts,
\* compute_basic_stats reports net = income - expense to the cent and
\* savings_rate = net / income to three decimals when income > 0, and
\* savings_rate = 0 exactly when income is 0.
C4_NetAndSavingsRate ==
    pc \in {"categories", "patterns", "actions", "done"} =>
        LET income  == SumSeq([i \in DOMAIN df.rows |->
                          IF df.rows[i]["is_income"] THEN df.rows[i]["amount"] ELSE 0])
            expense == SumSeq([i \in DOMAIN df.rows |->
                          IF df.rows[i]["is_income"] THEN 0 ELSE df.rows[i]["amount"]])
        IN  /\ stats.net % 10 = 0
            /\ Abs(stats.net - (income - expense)) <= 5
            /\ income > 0 =>
                  2 * Abs(1000 * (income - expense) - stats.savings_rate * income)
                      <= income
            /\ income = 0 => stats.savings_rate = 0

\* C4 witness: a month with income and a smaller expense, its stats computed.
C4_Witness ==
    /\ pc = "done"
    /\ stats.total_income > 0
    /\ stats.total_expense > 0
    /\ stats.net > 0
    /\ stats.savings_rate \notin {0, 1000}

\* C5: cashflow_flag follows the ordered thresholds on the stats (critical
\* when net < 0, else warning when savings_rate < 0.10, else ok); a set with
\* no income and some expense is critical, and a set with no income and no
\* expense is warning.
C5_CashflowFlagByOrderedThresholds ==
    pc \in {"actions", "done"} =>
        LET income  == AmountSum(IncomeRows(df))
            expense == AmountSum(ExpenseRows(df))
        IN  /\ patterns.cashflow_flag =
                  (IF stats.net < 0 THEN "critical"
                   ELSE IF stats.savings_rate < 100 THEN "warning" ELSE "ok")
            /\ (income = 0 /\ expense > 0) => patterns.cashflow_flag = "critical"
            /\ (income = 0 /\ expense = 0) => patterns.cashflow_flag = "warning"

\* C10: apply_auto_categories_to_df leaves a non-blank category as it is,
\* and leaves an absent or blank category as it is when the text of the row
\* holds no keyword.
C10_NonBlankCategoryKept ==
    pc = "stats" =>
        /\ Len(df.rows) = Len(raw.rows)
        /\ \A i \in DOMAIN raw.rows :
              LET old == raw.rows[i]["category"]
                  isblank == old = None \/ \A k \in DOMAIN old : old[k] = " "
                  nokeyword ==
                      \A k \in DOMAIN KEYWORD_CATEGORY_MAP :
                          /\ ~Contains(Lower(Str(raw.rows[i]["description"])),
                                       KEYWORD_CATEGORY_MAP[k][1])
                          /\ raw.rows[i]["source"] # None =>
                               ~Contains(Lower(raw.rows[i]["source"]),
                                         KEYWORD_CATEGORY_MAP[k][1])
              IN  /\ ~isblank => df.rows[i]["category"] = old
                  /\ (isblank /\ nokeyword) => df.rows[i]["category"] = old

\* C10 witness: a row with a category whose description holds the keyword of
\* another category, and a blank row without keyword, both resolved.
C10_Witness ==
    /\ pc = "stats"
    /\ \E i \in DOMAIN raw.rows :
          /\ raw.rows[i]["category"] = Cat_Food
          /\ raw.rows[i]["description"] = Desc_NetflixFee
    /\ \E i \in DOMAIN raw.rows :
          /\ raw.rows[i]["category"] = Blank
          /\ raw.rows[i]["description"] = Desc_gift

\* The dates of df that have at least one expense.
ExpenseDates ==
    {<<df.rows[i]["timestamp"].month, df.rows[i]["timestamp"].day>> :
        i \in {j \in DOMAIN df.rows : ~df.rows[j]["is_income"]}}

\* The expense total of one date.
DayTotal(date) ==
    SumSeq([i \in DOMAIN df.rows |->
        IF /\ ~df.rows[i]["is_income"]
           /\ df.rows[i]["timestamp"].month = date[1]
           /\ df.rows[i]["timestamp"].day = date[2]
        THEN df.rows[i]["amount"] ELSE 0])

\* The k-th smallest of the day totals.
KthDayTotal(k) ==
    LET v == CHOOSE d \in ExpenseDates :
                 /\ Cardinality({e \in ExpenseDates : DayTotal(e) < DayTotal(d)}) < k
                 /\ Cardinality({e \in ExpenseDates : DayTotal(e) <= DayTotal(d)}) >= k
    IN  DayTotal(v)

\* Twice the median of the day totals (0 without expense dates).
TwiceMedianDayTotal ==
    LET n == Cardinality(ExpenseDates)
    IN  IF n = 0 THEN 0
        ELSE KthDayTotal((n + 1) \div 2) + KthDayTotal((n + 2) \div 2)

\* C6: expenses are summed per calendar date; the median is taken over the
\* dates that have an expense; a date is a spike day exactly when its total
\* is strictly above 1.5 x median; extra_spend is the sum over the spike days
\* of (total - median), reported to the cent; the spike days are listed in
\* chronological order; a median of 0 or no expense gives no spike day and
\* extra_spend 0; daily totals 100, 100, 100, 1000 flag the 1000 day only,
\* with extra_spend 900.
C6_ImpulseSpikes ==
    pc = "actions" =>
        LET m2     == TwiceMedianDayTotal
            spikes == {d \in ExpenseDates : m2 > 0 /\ 4 * DayTotal(d) > 3 * m2}
            days   == patterns.impulse_spikes.days
            extra2 == SumSeq([k \in DOMAIN days |-> 2 * DayTotal(days[k]) - m2])
        IN  /\ {days[k] : k \in DOMAIN days} = spikes
            /\ \A j, k \in DOMAIN days :
                  j < k => \/ days[j][1] < days[k][1]
                           \/ days[j][1] = days[k][1] /\ days[j][2] < days[k][2]
            /\ Abs(2 * patterns.impulse_spikes.extra_spend - extra2) <= 10
            /\ patterns.impulse_spikes.extra_spend % 10 = 0
            /\ m2 = 0 => days = <<>> /\ patterns.impulse_spikes.extra_spend = 0
            /\ ( /\ Cardinality(ExpenseDates) = 4
                 /\ Cardinality({d \in ExpenseDates : DayTotal(d) = 100000}) = 3
                 /\ Cardinality({d \in ExpenseDates : DayTotal(d) = 1000000}) = 1 )
               => /\ Len(days) = 1
                  /\ DayTotal(days[1]) = 1000000
                  /\ patterns.impulse_spikes.extra_spend = 900000

\* C6 witness: daily totals 100, 100, 100, 1000 analysed, one spike day.
C6_Witness ==
    /\ pc = "actions"
    /\ Cardinality(ExpenseDates) = 4
    /\ Cardinality({d \in ExpenseDates : DayTotal(d) = 100000}) = 3
    /\ Cardinality({d \in ExpenseDates : DayTotal(d) = 1000000}) = 1
    /\ Len(patterns.impulse_spikes.days) = 1


\* The months of the history, and its sums of one month's amounts
HistoryMonths == {PeriodOf(df.rows[i]["timestamp"]) : i \in DOMAIN df.rows}

IsSubscriptionExpense(r) ==
    /\ ~r["is_income"]
    /\ \/ Lower(Str(r["category"])) = Word_subscriptions
       \/ Contains(Lower(Str(r["description"])), Word_subscription)

IsShoppingExpense(r) ==
    ~r["is_income"] /\ Lower(Str(r["category"])) = Word_shopping

OnlyMonthIncome  == AmountSum(SelectSeq(df.rows, LAMBDA r : r["is_income"]))
OnlyMonthExpense == AmountSum(SelectSeq(df.rows, LAMBDA r : ~r["is_income"]))
OnlyMonthSubs    == AmountSum(SelectSeq(df.rows, IsSubscriptionExpense))
OnlyMonthShop    == AmountSum(SelectSeq(df.rows, IsShoppingExpense))

\* savings_rate of the stats of the only month, in thousandths
OnlyMonthSavingsRate ==
    IF OnlyMonthIncome > 0
    THEN Round3(OnlyMonthIncome - OnlyMonthExpense, OnlyMonthIncome) ELSE 0

\* spend / total_expense > 1 / parts, total_expense being the one of the
\* stats, or the epsilon when that is zero
ShareAbove(spend, parts) ==
    LET total_expense == Round2(OnlyMonthExpense, 1)
    IN  IF total_expense > 0 THEN parts * spend > total_expense ELSE spend > 0

PriorityLabel ==
    IF OnlyMonthSavingsRate >= 400 THEN "Super Saver"
    ELSE IF ShareAbove(OnlyMonthSubs, 5) THEN "Subscription Heavy"
    ELSE IF ShareAbove(OnlyMonthShop, 4) THEN "Lifestyle Spender"
    ELSE "Balanced"

\* C7: a history of exactly one month is never clustered, and its month is
\* labelled by the priority order: savings_rate >= 0.40 -> Super Saver, else
\* subscription share > 0.20 -> Subscription Heavy, else shopping share >
\* 0.25 -> Lifestyle Spender, else Balanced; a month with zero expense has
\* both shares 0.
C7_SingleMonthHeuristicPriority ==
    Cardinality(HistoryMonths) = 1 =>
        /\ pc # "fit_predict"
        /\ pc = "done" =>
              /\ clustering.cluster = <<>>
              /\ DOMAIN profiles.labels_by_period = HistoryMonths
              /\ \A p \in HistoryMonths : profiles.labels_by_period[p] = PriorityLabel
              /\ OnlyMonthExpense = 0 =>
                    /\ clustering.monthly[1].subs_share.num = 0
                    /\ clustering.monthly[1].shopping_share.num = 0

\* A single month that saves 80% and spends everything on subscriptions is
\* labelled Super Saver.
C7_Witness ==
    /\ pc = "done"
    /\ Cardinality(HistoryMonths) = 1
    /\ OnlyMonthSavingsRate >= 400
    /\ ShareAbove(OnlyMonthSubs, 5)
    /\ \A p \in HistoryMonths : profiles.labels_by_period[p] = "Super Saver"

\* The clusters fit_predict returned
ClustersPresent == {clustering.cluster[i] : i \in DOMAIN clustering.cluster}

\* C8: in the clustering path (two or more months, k = min(3, months)) every
\* cluster gets exactly one persona label, and no two clusters get the same
\* label, whatever the cluster means are.
C8_ClusterLabelsOneToOne ==
    (pc = "done" /\ Cardinality(HistoryMonths) >= 2) =>
        /\ Len(clustering.cluster) = Cardinality(HistoryMonths)
        /\ ClustersPresent \subseteq 0..(ClusterCount(Cardinality(HistoryMonths)) - 1)
        /\ DOMAIN clustering.cluster_labels = ClustersPresent
        /\ \A c \in ClustersPresent :
              clustering.cluster_labels[c] \in DefaultClusterDescriptions
        /\ \A c, d \in ClustersPresent :
              c # d => clustering.cluster_labels[c] # clustering.cluster_labels[d]
        /\ \A i \in DOMAIN clustering.cluster :
              profiles.labels_by_period[clustering.monthly[i].period]
                  = clustering.cluster_labels[clustering.cluster[i]]

\* Three months in three clusters, two of them with the same features.
C8_Witness ==
    /\ pc = "done"
    /\ Cardinality(HistoryMonths) = 3
    /\ Cardinality(ClustersPresent) = 3
    /\ clustering.monthly[1].savings_rate = clustering.monthly[2].savings_rate
    /\ clustering.monthly[1].subs_share = clustering.monthly[2].subs_share
    /\ clustering.monthly[1].shopping_share = clustering.monthly[2].shopping_share

\* The expenses of a category in the current period, or in the others
TrendExpenses(cat, in_current) ==
    SelectSeq(df.rows, LAMBDA r : /\ ~r["is_income"]
                                  /\ r["category"] = cat
                                  /\ (r["period"] = current_period) = in_current)

\* The months other than the current one in which anything was spent
BaselineMonths ==
    {df.rows[i]["period"] : i \in {j \in DOMAIN df.rows :
        ~df.rows[j]["is_income"] /\ df.rows[j]["period"] # current_period}}

SpentInCurrentPeriod ==
    \E i \in DOMAIN df.rows :
        ~df.rows[i]["is_income"] /\ df.rows[i]["period"] = current_period

TrendedCategories ==
    {df.rows[i]["category"] : i \in DOMAIN df.rows} \ {None}

SearchedText(row) ==
    Lower(row["description"])
    \o (IF row["source"] = None THEN <<>> ELSE <<" ">> \o Lower(row["source"]))
    \o (IF row["account_name"] = None THEN <<>>
        ELSE <<" ">> \o Lower(row["account_name"]))

KeywordsIn(text) ==
    {k \in DOMAIN KEYWORD_CATEGORY_MAP : Contains(text, KEYWORD_CATEGORY_MAP[k][1])}

\* C11: guess_category searches the lower-cased concatenation of the present
\* fields and returns the category of the keyword that comes first in the
\* table's declaration order among those that occur; it returns no category
\* (the row keeps its own) only when no keyword occurs.
C11_FirstKeywordInTableOrder ==
    pc = "stats" =>
        \A i \in DOMAIN raw.rows :
            LET hits == KeywordsIn(SearchedText(raw.rows[i]))
            IN  /\ hits = {} => df.rows[i]["category"] = None
                /\ hits # {} =>
                      \E k \in hits :
                          /\ \A j \in hits : k <= j
                          /\ df.rows[i]["category"] = KEYWORD_CATEGORY_MAP[k][2]

\* "late fee uber": fee comes first in the text, uber first in the table.
C11_Witness ==
    /\ pc = "stats"
    /\ \E i \in DOMAIN raw.rows :
          /\ raw.rows[i]["description"] = Desc_LateFee
          /\ raw.rows[i]["source"] = Source_Uber
          /\ raw.rows[i]["account_name"] = None
          /\ Cardinality(KeywordsIn(SearchedText(raw.rows[i]))) = 2
          /\ df.rows[i]["category"] = Cat_Transport

\* C12: no component changes the table its caller passed: the table handed
\* to apply_auto_categories_to_df (raw) and the one handed to
\* detect_patterns, build_behaviour_profiles and compute_category_trends
\* (df) have the same columns and values after the call as before, also
\* when the table has no category column.
C12_CallerTableUnchanged ==
    [][/\ raw' = raw
       /\ pc # "resolve" => df' = df]_vars

\* C13: build_behaviour_profiles returns cluster_descriptions with all four
\* persona names, for every input, a table without transactions included.
C13_AllFourDescriptions ==
    pc = "done" =>
        profiles.cluster_descriptions =
            {"Super Saver", "Balanced", "Subscription Heavy", "Lifestyle Spender"}

\* C14: build_money_story never fails because of the text service: for
\* every failure of that step (no API key, client library missing, client
\* construction error, request error, empty response) the story returned is
\* the template story of the same period, stats, categories and patterns.
C14_ServiceFailureGivesTemplate ==
    (pc = "done" /\ story.llm \in {"no_api_key", "import_error", "client_error",
                                   "request_error", "empty"}) =>
        /\ ~story.result.raised
        /\ story.result.value =
              template_story(current_period, stats, categories, patterns)

C16_BaselineIsMonthlyAverage ==
    pc = "done" =>
        IF ~SpentInCurrentPeriod \/ BaselineMonths = {}
        THEN trends = <<>>
        ELSE \A i \in DOMAIN trends :
                \E cat \in TrendedCategories :
                    /\ trends[i].category = Str(cat)
                    /\ trends[i].baseline =
                          Round2(AmountSum(TrendExpenses(cat, FALSE)),
                                 Cardinality(BaselineMonths))

\* Two baseline months, and a category spent on in only one of them (0.03):
\* its baseline is half of what was spent (0.015, reported to the cent),
\* not all of it.
C16_Witness ==
    /\ pc = "done"
    /\ Cardinality(BaselineMonths) = 2
    /\ \E cat \in TrendedCategories :
          /\ Cardinality({r["period"] : r \in Range(TrendExpenses(cat, FALSE))}) = 1
          /\ AmountSum(TrendExpenses(cat, FALSE)) = 30
          /\ \E i \in DOMAIN trends :
                trends[i].category = Str(cat) /\ trends[i].baseline \in {10, 20}

\* The categories of the expenses, of the current or of any other period
SpentCategories ==
    {cat \in TrendedCategories :
        TrendExpenses(cat, TRUE) # <<>> \/ TrendExpenses(cat, FALSE) # <<>>}

\* |delta_pct| of a row, a null delta_pct counting as 0.0
Movement(row) == IF row.delta_pct.null THEN 0 ELSE Abs(row.delta_pct.value)

FirstEncountered(cat) ==
    CHOOSE i \in DOMAIN df.rows :
        /\ ~df.rows[i]["is_income"] /\ Str(df.rows[i]["category"]) = cat
        /\ \A j \in 1..(i - 1) :
              df.rows[j]["is_income"] \/ Str(df.rows[j]["category"]) # cat

\* C18: the breakdown lists exactly the distinct categories of the expense
\* transactions, by descending total, and categories with equal totals in
\* the order in which they were first encountered in the input.
C18_BreakdownOrder ==
    pc = "patterns" =>
        /\ {categories[i].category : i \in DOMAIN categories}
              = {Str(df.rows[i]["category"]) :
                    i \in {j \in DOMAIN df.rows : ~df.rows[j]["is_income"]}}
        /\ \A i, j \in DOMAIN categories :
              i < j =>
                  /\ categories[i].category # categories[j].category
                  /\ categories[i].total_spend >= categories[j].total_spend
                  /\ categories[i].total_spend = categories[j].total_spend =>
                        FirstEncountered(categories[i].category)
                            < FirstEncountered(categories[j].category)

\* The months of a cluster and the means of their features
MonthsOf(c) == {i \in DOMAIN clustering.cluster : clustering.cluster[i] = c}

MonthsIn(c) == SortedInts(MonthsOf(c))

MeanSavings(c) ==
    FracMean([k \in DOMAIN MonthsIn(c) |->
                 Frac(clustering.monthly[MonthsIn(c)[k]].savings_rate, 1)])
MeanSubs(c) ==
    FracMean([k \in DOMAIN MonthsIn(c) |-> clustering.monthly[MonthsIn(c)[k]].subs_share])
MeanShop(c) ==
    FracMean([k \in DOMAIN MonthsIn(c) |->
                 clustering.monthly[MonthsIn(c)[k]].shopping_share])

\* The clusters that carry a label
Labelled(label) == {c \in ClustersPresent : clustering.cluster_labels[c] = label}

\* C19: the labelling is greedy and without replacement: Super Saver goes
\* to a cluster of highest mean savings_rate; Subscription Heavy to a
\* cluster of highest mean subscription share among the others; Lifestyle
\* Spender to a cluster of highest mean shopping share among those then
\* left; every other cluster is Balanced.  A cluster labelled by an earlier
\* step keeps that label, however high its later features are.
C19_GreedyLabelsWithoutReplacement ==
    (pc = "done" /\ Cardinality(HistoryMonths) >= 2) =>
        LET saver   == Labelled("Super Saver")
            subs    == Labelled("Subscription Heavy")
            shop    == Labelled("Lifestyle Spender")
            others  == ClustersPresent \ (saver \cup subs \cup shop)
            savings == [c \in ClustersPresent |-> MeanSavings(c)]
            subs_sh == [c \in ClustersPresent |-> MeanSubs(c)]
            shop_sh == [c \in ClustersPresent |-> MeanShop(c)]
        IN  /\ Cardinality(saver) = 1
            /\ \A s \in saver : \A c \in ClustersPresent :
                  ~FracGreater(savings[c], savings[s])
            /\ Cardinality(subs) = (IF Cardinality(ClustersPresent) >= 2 THEN 1 ELSE 0)
            /\ \A h \in subs : \A c \in ClustersPresent \ saver :
                  ~FracGreater(subs_sh[c], subs_sh[h])
            /\ Cardinality(shop) = (IF Cardinality(ClustersPresent) >= 3 THEN 1 ELSE 0)
            /\ \A l \in shop : \A c \in ClustersPresent \ (saver \cup subs) :
                  ~FracGreater(shop_sh[c], shop_sh[l])
            /\ \A c \in others : clustering.cluster_labels[c] = "Balanced"

\* The cluster that saves most also has the highest subscription share: it
\* stays Super Saver, and Subscription Heavy goes to a cluster with a lower
\* share.
C19_Witness ==
    /\ pc = "done"
    /\ Cardinality(ClustersPresent) >= 2
    /\ \E s \in Labelled("Super Saver") : \E h \in Labelled("Subscription Heavy") :
          /\ FracGreater(MeanSubs(s), MeanSubs(h))
          /\ \A c \in ClustersPresent \ {s} : FracGreater(MeanSavings(s), MeanSavings(c))

\* C20: the threshold decisions are taken on the full-precision net and
\* savings rate: every transaction set with income - expense >= 0 and
\* (income - expense) / income strictly below 0.10 gets the cashflow flag
\* warning.
C20_ThresholdsOnFullPrecision ==
    pc \in {"actions", "done"} =>
        LET income  == AmountSum(IncomeRows(df))
            expense == AmountSum(ExpenseRows(df))
        IN  (income > 0 /\ income - expense >= 0 /\ 10 * (income - expense) < income)
                => patterns.cashflow_flag = "warning"


\* C21: two invocations of compute_category_trends with the same history and
\* the same current period return the same rows in the same order, rows with
\* equal sort keys included: the second invocation changes nothing of the
\* result of the first.
C21_SameRowsSameOrder ==
    [][pc = "done" => trends' = trends]_vars



\* The persona labels the months carry
LabelsUsed == {profiles.labels_by_period[p] : p \in DOMAIN profiles.labels_by_period}

\* C22: in the clustering path (two or more months, k = min(3, months)) no
\* month is labelled Balanced and at least one month is labelled Super Saver,
\* whatever the savings rates of the months are; when the months fall into
\* exactly two clusters, the labels used are exactly Super Saver and
\* Subscription Heavy.
C22_NeverBalancedAlwaysSuperSaver ==
    (pc = "done" /\ Cardinality(HistoryMonths) >= 2) =>
        /\ DOMAIN profiles.labels_by_period = HistoryMonths
        /\ "Balanced" \notin LabelsUsed
        /\ "Super Saver" \in LabelsUsed
        /\ Cardinality(ClustersPresent) = 2 =>
              LabelsUsed = {"Super Saver", "Subscription Heavy"}

\* Four months that all save nothing, far below the savings rate of the
\* heuristic label, fall into three clusters: one cluster is Super Saver all
\* the same, and the three labels are those of the three greedy steps.
C22_Witness ==
    /\ pc = "done"
    /\ Cardinality(HistoryMonths) = 4
    /\ Cardinality(ClustersPresent) = 3
    /\ \A i \in DOMAIN clustering.monthly :
          /\ clustering.monthly[i].savings_rate <= 0
          /\ HeuristicLabel(clustering.monthly[i]) # "Super Saver"
    /\ LabelsUsed = {"Super Saver", "Subscription Heavy", "Lifestyle Spender"}



\* C23: in detect_patterns with non-negative amounts the list of spike days
\* is non-empty exactly when the unrounded extra_spend, the sum over the
\* spike days of (total - median), is strictly positive; the total of every
\* spike day is strictly above the median; the spike days are at most half
\* (rounded down) of the dates that have an expense, so that a single
\* expense date never gives a spike.
C23_SpikeDaysAboveMedianAtMostHalf ==
    pc = "actions" =>
        LET m2     == TwiceMedianDayTotal
            days   == patterns.impulse_spikes.days
            extra2 == SumSeq([k \in DOMAIN days |-> 2 * DayTotal(days[k]) - m2])
        IN  /\ \A i \in DOMAIN df.rows : df.rows[i]["amount"] >= 0
            /\ (days # <<>>) <=> (extra2 > 0)
            /\ \A k \in DOMAIN days : /\ days[k] \in ExpenseDates
                                        /\ 2 * DayTotal(days[k]) > m2
            /\ \A j, k \in DOMAIN days : j # k => days[j] # days[k]
            /\ Len(days) <= Cardinality(ExpenseDates) \div 2
            /\ Cardinality(ExpenseDates) = 1 => days = <<>>

\* Four expense dates of which two, as many as half of them, are spike days.
C23_Witness ==
    /\ pc = "actions"
    /\ Cardinality(ExpenseDates) = 4
    /\ Len(patterns.impulse_spikes.days) = 2
    /\ patterns.impulse_spikes.extra_spend > 0


============================================================================
